---- MODULE Spec2Model ----
(***************************************************************************)
(* PhantomBuster LinkedIn relay (RichardButterworth1/NEW-LI).              *)
(*                                                                         *)
(* The fire-and-poll services of src/unnamed/part_000: the single-snapshot *)
(* variant (lines 146-456), the parallel-launch variant (lines 458-794)    *)
(* and the staggered-launch variant (lines 796-1173).  One Node process,   *)
(* one event loop: a handler runs without interruption from one await to   *)
(* the next, so every action below is one such run-to-suspension segment.  *)
(***************************************************************************)
EXTENDS Integers, Sequences, FiniteSets, TLC

\* ------------------------------------------------------------------------
\* Bounds of the model
\* ------------------------------------------------------------------------
MaxBatches == 1   \* batches created in one behaviour
MaxJobs == 2      \* container ids the remote service hands out
MaxExtra == 1     \* payload lists go up to MAX_RESULTS_RETURNED + MaxExtra
MaxLen == 3       \* items of a list handed to a post-processing function

\* ------------------------------------------------------------------------
\* Configuration (process.env defaults, part_000 lines 803-818)
\* ------------------------------------------------------------------------
MAX_SINGLE_POLL_WAIT_MS == 25000
POLL_EVERY_MS == 3000
MAX_RESULTS_RETURNED == 50
LAUNCH_BASE_DELAY_MS == 8000
LAUNCH_MAX_RETRIES == 5
LAUNCH_BACKOFF_FACTOR == 2
LAUNCH_JITTER_MS == 1500

DEFAULT_TITLES ==
  << "Product Regulatory Manager", "Regulatory Compliance Director",
     "Product Stewardship Director", "Product Sustainability Director" >>

Variants == {"snapshot", "parallel", "staggered"}

\* ------------------------------------------------------------------------
\* JavaScript values
\* ------------------------------------------------------------------------
\* null / undefined
Null == [tag |-> "null"]
\* a string whose characters matter (a company name)
Str(s) == [tag |-> "string", chars |-> s]
\* a string the service only passes along (a message, a payload field)
Text(t) == [tag |-> "text", text |-> t]
\* an Array
Arr(s) == [tag |-> "array", items |-> s]
\* a plain object carrying the fields the service probes
Obj(d, r, p) == [tag |-> "object", data |-> d, results |-> r, profiles |-> p]

IsArray(v) == v.tag = "array"

\* null, undefined and "" are falsy; arrays and objects are truthy
Truthy(v) == v # Null /\ v # Str(<<>>)

\* a || b
Or(a, b) == IF Truthy(a) THEN a ELSE b

Min(a, b) == IF a < b THEN a ELSE b

\* ------------------------------------------------------------------------
\* Request bodies
\* ------------------------------------------------------------------------
IsSpace(c) == c = " "

RECURSIVE TrimStart(_)
TrimStart(s) ==
  IF s = <<>> THEN <<>>
  ELSE IF IsSpace(Head(s)) THEN TrimStart(Tail(s)) ELSE s

RECURSIVE TrimEnd(_)
TrimEnd(s) ==
  IF s = <<>> THEN <<>>
  ELSE IF IsSpace(s[Len(s)]) THEN TrimEnd(SubSeq(s, 1, Len(s) - 1)) ELSE s

\* String.prototype.trim
Trim(v) == Str(TrimEnd(TrimStart(v.chars)))

\* the company as sent, not trimmed
CompanyUntrimmed(body) == Or(body.company, Str(<<>>))

\* const company = (req.body.company || "").trim();
CompanyOf(body) == Trim(Or(body.company, Str(<<>>)))

\* let titles = Array.isArray(req.body.titles) ? req.body.titles : [];
\* if (!titles.length) titles = DEFAULT_TITLES;
TitlesOf(body) ==
  LET given == IF IsArray(body.titles) THEN body.titles.items ELSE <<>>
  IN  IF Len(given) = 0 THEN DEFAULT_TITLES ELSE given

\* the bodies the clients send: without a company, and with one
NoCompany == { Null, Str(<<>>), Str(<<" ">>), Str(<<" ", " ">>) }

Companies == { Str(<<"a">>), Str(<<" ", "a", " ">>) }

UserTitles == {"T1", "T2"}

TitleInputs ==
  { Null, Text("T1"), Arr(<<>>) }
    \cup { Arr(<<t>>) : t \in UserTitles }
    \cup { Arr(<<t, u>>) : t \in UserTitles, u \in UserTitles }

Bodies ==
  [company : Companies, titles : TitleInputs]
    \cup [company : NoCompany, titles : {Null, Arr(<<"T1", "T2">>)}]

\* ------------------------------------------------------------------------
\* URL builder
\* ------------------------------------------------------------------------
\* `${title} "${company}"`, percent-encoded into the people-search URL
buildLinkedInSearchUrl(title, company) ==
  [tag |-> "url", keywords |-> << title, " ", "\"", company.chars, "\"" >>]

\* ------------------------------------------------------------------------
\* State
\* ------------------------------------------------------------------------
VARIABLES
  variant,   \* which of the three fire-and-poll services is running
  batches,   \* const batches = Object.create(null)
  post,      \* the POST /search-profiles handlers
  get,       \* the GET /results/:batchId handlers
  jobs,      \* the remote service: container id -> the job's status and output
  http,      \* the request received or the response sent by the last step
  call       \* the last call of a post-processing function made on its own

vars == << variant, batches, post, get, jobs, http, call >>

\* what a step that receives a request or sends a response leaves in http
Event(op, h, req, resp, sent) ==
  [op |-> op, h |-> h, req |-> req, resp |-> resp, sent |-> sent]

\* the requests in flight at once: one POST /search-profiles handler and two
\* GET /results/:batchId handlers; a handler that has answered serves again
Posts == {"p1"}
Gets == {"g1", "g2"}
\* the batch ids handed out: MaxBatches for each POST handler there is
BatchIds == 1..(MaxBatches * Cardinality(DOMAIN post))
JobIds == 1..MaxJobs

\* a container id as the service holds it
Cid(n) == [tag |-> "id", n |-> n]

EmptyFn == [x \in {} |-> Null]

\* f with f[k] set to v (obj[k] = v)
Put(f, k, v) == [x \in DOMAIN f \cup {k} |-> IF x = k THEN v ELSE f[x]]

\* the insertion order of an object's keys after obj[k] = v
PutKey(keys, k) ==
  IF \E i \in 1..Len(keys) : keys[i] = k THEN keys ELSE Append(keys, k)

\* ------------------------------------------------------------------------
\* The remote service's answers to a launch request
\* ------------------------------------------------------------------------
\* the three response shapes that carry a container id, and one that does not
LaunchBodies(c) ==
  { [containerId |-> Cid(c), data |-> Null, container |-> Null],
    [containerId |-> Null, data |-> [tag |-> "object", containerId |-> Cid(c)],
     container |-> Null],
    [containerId |-> Null, data |-> Null,
     container |-> [tag |-> "object", id |-> Cid(c)]] }

NoIdBody == [containerId |-> Null, data |-> Null, container |-> Null]

\* an axios failure: err.response.status (0: no response at all),
\* err.response.data and err.message
HttpError(st) ==
  [status |-> st,
   data |-> IF st = 0 THEN Null ELSE [tag |-> "errbody", status |-> st],
   message |-> [tag |-> "axios", status |-> st]]

\* new Error(message)
JsError(m) == [status |-> 0, data |-> Null, message |-> m]

FailStatuses == {404, 429}

\* data.containerId || data.data?.containerId || data.container?.id
ExtractContainerId(data) ==
  Or(Or(data.containerId,
        IF data.data = Null THEN Null ELSE data.data.containerId),
     IF data.container = Null THEN Null ELSE data.container.id)

\* launchRunForTitle: the value returned, or the error thrown
launchRunForTitle(title, company, answer) ==
  IF answer.kind = "error" THEN [ok |-> FALSE, err |-> answer.err]
  ELSE
    LET data == Or(answer.body, NoIdBody)
        containerId == ExtractContainerId(data)
    IN  IF ~Truthy(containerId)
        THEN [ok |-> FALSE,
              err |-> JsError([tag |-> "noContainerId", title |-> title])]
        ELSE [ok |-> TRUE, containerId |-> containerId,
              url |-> buildLinkedInSearchUrl(title, company)]

\* ------------------------------------------------------------------------
\* Runs and batches
\* ------------------------------------------------------------------------
RunStarted(title, url, containerId) ==
  [title |-> title, url |-> url, containerId |-> containerId,
   status |-> "running", resultObject |-> Null, error |-> Null]

\* a failed launch recorded as a Run that runs
RunFailedRunning(title, msg) ==
  [title |-> title, url |-> Null, containerId |-> Null,
   status |-> "running", resultObject |-> Null, error |-> msg]

RunFailed(title, msg) ==
  [title |-> title, url |-> Null, containerId |-> Null,
   status |-> "error", resultObject |-> Null, error |-> msg]

\* batches[batchId] = { company, titles, createdAt, runs: {} }
NewBatch(company, titles) ==
  [company |-> company, titles |-> titles, createdAt |-> Text("Date.now()"),
   runs |-> EmptyFn, keys |-> <<>>]

\* batches[batchId].runs[title] = run
SetRun(bs, id, title, run) ==
  [bs EXCEPT ![id].runs = Put(@, title, run), ![id].keys = PutKey(@, title)]

\* an identifier that repeats the one handed out last
randomUUIDRepeated ==
  IF batches = EmptyFn THEN 1 ELSE Cardinality(DOMAIN batches)

\* crypto.randomUUID(): a value no earlier call returned
randomUUID == Cardinality(DOMAIN batches) + 1

\* the runs part of the POST response
RunsView(runs) ==
  [t \in DOMAIN runs |->
     [containerId |-> runs[t].containerId, status |-> runs[t].status,
      url |-> runs[t].url, error |-> runs[t].error]]

\* ------------------------------------------------------------------------
\* POST /search-profiles
\* ------------------------------------------------------------------------
\* a handler that is not serving a request; resp and sent are what a handler
\* hands over when it answers, and are not kept
IdlePost ==
  [pc |-> "idle", batchId |-> 0, idx |-> 0, attempt |-> 0, delay |-> 0,
   wait |-> 0, inflight |-> {}, sent |-> <<>>, resp |-> Null]

\* the handler sends resp and is over
PostAnswer(resp, sent) == [IdlePost EXCEPT !.resp = resp, !.sent = sent]

\* handler h goes on as q: the table keeps q, the response goes out
PostStep(h, req, q) ==
  /\ post' = [post EXCEPT ![h] = IF q.pc = "idle" THEN IdlePost ELSE q]
  /\ http' = IF q.resp # Null \/ req # Null
             THEN Event("POST", h, req, q.resp, q.sent) ELSE Null

\* res.status(400).json({ error: "Company is required." })
Resp400 == [code |-> 400, error |-> Text("Company is required.")]

\* res.json({ batchId, company, titles, runs })
PostResp(bs, id) ==
  [code |-> 200, batchId |-> id, company |-> bs[id].company,
   titles |-> bs[id].titles, runs |-> RunsView(bs[id].runs)]

\* Math.floor(Math.random() * LAUNCH_JITTER_MS): the least and the greatest
Jitters == {0, LAUNCH_JITTER_MS - 1}

withJitter(ms, jitter) == ms + jitter

\* err?.response?.data || err.message
ErrDetail(err) == Or(err.data, err.message)

\* while (attempt < Number(LAUNCH_MAX_RETRIES))
RetryLoopGuard(attempt) == attempt < LAUNCH_MAX_RETRIES

\* an attempt that is not counted
NextAttemptStuck(attempt) == attempt

\* attempt += 1
NextAttempt(attempt) == attempt + 1

\* giving up after the first failure
RetriesExhaustedEarly(attempt) == attempt >= 1

\* if (attempt >= Number(LAUNCH_MAX_RETRIES)) throw ...
RetriesExhausted(attempt) == attempt >= LAUNCH_MAX_RETRIES

\* !status || status >= 500 || status === 429 || status === 408
BackoffClass(status) ==
  status = 0 \/ status >= 500 \/ status = 429 \/ status = 408

\* the wait before the next attempt and the delay after it
RetryWait(delay, status, jitter) ==
  IF BackoffClass(status) THEN withJitter(delay, jitter)
  ELSE withJitter(Min(delay, 5000), jitter)

\* a delay that grows after every failure
RetryDelayAlways(delay, status) == delay * LAUNCH_BACKOFF_FACTOR

RetryDelay(delay, status) ==
  IF BackoffClass(status) THEN delay * LAUNCH_BACKOFF_FACTOR ELSE delay

\* one more launch request for title number i of the handler's batch
Sent(sent, i) == [sent EXCEPT ![i] = @ + 1]

\* The handler has stored the Run of title number i (staggered service): the
\* for loop goes on to the stagger sleep of the next title, or the response.
AfterTitle(p, bs, i, jitter) ==
  IF i < Len(bs[p.batchId].titles)
  THEN [p EXCEPT !.pc = "stagger", !.idx = i + 1, !.attempt = 0, !.delay = 0,
                 !.inflight = {},
                 !.wait = withJitter(LAUNCH_BASE_DELAY_MS, jitter)]
  ELSE PostAnswer(PostResp(bs, p.batchId), p.sent)

\* new Error(`Failed to launch "${title}" after ... attempts`), line 978
FailedAfter(title) ==
  JsError([tag |-> "failedAfter", title |-> title, retries |-> LAUNCH_MAX_RETRIES])

\* new Error(`Exceeded max retries ... Last error: ${msg}`), line 957
Exceeded(title, msg) ==
  JsError([tag |-> "exceeded", title |-> title, retries |-> LAUNCH_MAX_RETRIES,
           last |-> msg])

\* a catch that stores the failed Run and gives up the batch
CatchLaunchAbort(p, bs, i, err, jitter) ==
  LET title == bs[p.batchId].titles[i]
      bs2 == SetRun(bs, p.batchId, title, RunFailed(title, ErrDetail(err)))
  IN  [ps |-> PostAnswer(PostResp(bs2, p.batchId), p.sent), bs |-> bs2]

\* the catch of the handler's for loop stores the failed Run (lines 1046-1057)
CatchLaunch(p, bs, i, err, jitter) ==
  LET title == bs[p.batchId].titles[i]
      bs2 == SetRun(bs, p.batchId, title, RunFailed(title, ErrDetail(err)))
  IN  [ps |-> AfterTitle(p, bs2, i, jitter), bs |-> bs2]

\* launchRunForTitleWithRetry is entered for title number i: the first
\* request goes out, unless the loop guard fails at once and line 978 throws
EnterRetry(p, bs, i, jitter) ==
  IF RetryLoopGuard(0)
  THEN [ps |-> [p EXCEPT !.pc = "launching", !.idx = i, !.attempt = 0,
                         !.delay = LAUNCH_BASE_DELAY_MS, !.wait = 0,
                         !.inflight = {i}, !.sent = Sent(@, i)],
        bs |-> bs]
  ELSE CatchLaunch([p EXCEPT !.idx = i], bs, i,
                   FailedAfter(bs[p.batchId].titles[i]), jitter)

PostRequest(h, body) ==
  /\ post[h].pc = "idle"
  /\ LET company == CompanyOf(body)
         titles == TitlesOf(body)
         n == Len(titles)
         id == randomUUID
         bs == Put(batches, id, NewBatch(company, titles))
         p0 == [IdlePost EXCEPT !.batchId = id, !.sent = [i \in 1..n |-> 0]]
     IN  IF ~Truthy(company)
         THEN /\ PostStep(h, body, PostAnswer(Resp400, <<>>))
              /\ UNCHANGED batches
         ELSE /\ id \in BatchIds
              /\ IF variant = "staggered"
                 THEN \E j \in Jitters :
                        LET e == EnterRetry(p0, bs, 1, j)
                        IN  PostStep(h, body, e.ps) /\ batches' = e.bs
                 ELSE /\ batches' = bs
                      /\ PostStep(h, body,
                           [p0 EXCEPT !.pc = "launching", !.inflight = 1..n,
                                      !.sent = [i \in 1..n |-> 1]])
  /\ UNCHANGED << variant, call, get, jobs >>

\* what the remote service may answer to a launch request
LaunchAnswers(statuses) ==
  LET c == Cardinality(DOMAIN jobs) + 1
  IN  (IF c \in JobIds
       THEN { [kind |-> "response", body |-> b, job |-> c] : b \in LaunchBodies(c) }
       ELSE {})
      \cup { [kind |-> "response", body |-> b, job |-> 0] : b \in {Null, NoIdBody} }
      \cup { [kind |-> "error", err |-> HttpError(st), job |-> 0] : st \in statuses }

\* the remote service starts the job it answers for
JobStarted(answer) ==
  IF answer.job = 0 THEN jobs
  ELSE Put(jobs, answer.job, [status |-> "running", payload |-> Null])

\* axios.post of launchRunForTitle returns or throws (staggered service)
LaunchReturnStaggered(h, answer) ==
  /\ variant = "staggered"
  /\ post[h].pc = "launching"
  /\ LET p == post[h]
         i == p.idx
         b == batches[p.batchId]
         title == b.titles[i]
         res == launchRunForTitle(title, b.company, answer)
         attempt == NextAttempt(p.attempt)
         status == res.err.status
         msg == ErrDetail(res.err)
     IN  \E j \in Jitters :
           IF res.ok
           THEN LET bs == SetRun(batches, p.batchId, title,
                                 RunStarted(title, res.url, res.containerId))
                IN  /\ batches' = bs
                    /\ PostStep(h, Null, AfterTitle(p, bs, i, j))
           ELSE IF RetriesExhausted(attempt)
           THEN LET e == CatchLaunch([p EXCEPT !.attempt = attempt], batches, i,
                                     Exceeded(title, msg), j)
                IN  /\ batches' = e.bs
                    /\ PostStep(h, Null, e.ps)
           ELSE /\ batches' = batches
                /\ PostStep(h, Null,
                     [p EXCEPT !.pc = "backoff", !.attempt = attempt,
                               !.inflight = {},
                               !.wait = RetryWait(p.delay, status, j),
                               !.delay = RetryDelay(p.delay, status)])
  /\ jobs' = JobStarted(answer)
  /\ UNCHANGED << variant, call, get >>

\* the stagger sleep before title number idx is over
StaggerWake(h) ==
  /\ post[h].pc = "stagger"
  /\ \E j \in Jitters :
       LET e == EnterRetry(post[h], batches, post[h].idx, j)
       IN  PostStep(h, Null, e.ps) /\ batches' = e.bs
  /\ UNCHANGED << variant, call, get, jobs >>

\* the backoff sleep is over: the while loop of launchRunForTitleWithRetry
\* tests its guard and launches again, or falls through to line 978
BackoffWake(h) ==
  /\ post[h].pc = "backoff"
  /\ LET p == post[h]
         i == p.idx
     IN  IF RetryLoopGuard(p.attempt)
         THEN /\ PostStep(h, Null,
                   [p EXCEPT !.pc = "launching", !.wait = 0, !.inflight = {i},
                             !.sent = Sent(@, i)])
              /\ batches' = batches
         ELSE \E j \in Jitters :
                LET e == CatchLaunch(p, batches, i,
                                     FailedAfter(batches[p.batchId].titles[i]), j)
                IN  batches' = e.bs /\ PostStep(h, Null, e.ps)
  /\ UNCHANGED << variant, call, get, jobs >>

\* axios.post of launchRunForTitle returns or throws for title number i
\* (single-snapshot and parallel services: all launches are in flight at once)
LaunchReturnParallel(h, i, answer) ==
  /\ variant # "staggered"
  /\ post[h].pc = "launching"
  /\ i \in post[h].inflight
  /\ LET p == post[h]
         b == batches[p.batchId]
         title == b.titles[i]
         res == launchRunForTitle(title, b.company, answer)
         run == IF res.ok THEN RunStarted(title, res.url, res.containerId)
                ELSE RunFailed(title, res.err.message)
         bs == SetRun(batches, p.batchId, title, run)
         left == p.inflight \ {i}
     IN  /\ batches' = bs
         /\ PostStep(h, Null,
              IF left = {} THEN PostAnswer(PostResp(bs, p.batchId), p.sent)
              ELSE [p EXCEPT !.inflight = left])
  /\ jobs' = JobStarted(answer)
  /\ UNCHANGED << variant, call, get >>

\* ------------------------------------------------------------------------
\* Result payloads and their post-processing
\* ------------------------------------------------------------------------
\* a URL string found in a result item
Url(u) == [tag |-> "urlstring", id |-> u]

\* a result item: the four URL-like fields dedupeByUrl looks at, and the rest
Item(profileUrl, url, linkedinProfileUrl, publicProfileUrl, rest) ==
  [tag |-> "item", profileUrl |-> profileUrl, url |-> url,
   linkedinProfileUrl |-> linkedinProfileUrl,
   publicProfileUrl |-> publicProfileUrl, rest |-> rest]

\* JSON.stringify(v)
Json(v) == [tag |-> "json", of |-> v]

\* v.f, undefined when v is no object
Field(v, f) == IF v.tag = "object" THEN v[f] ELSE Null

\* probing profiles before results and data
normalizeProfilesFirst(resultObject) ==
  IF ~Truthy(resultObject) THEN <<>>
  ELSE IF IsArray(resultObject) THEN resultObject.items
  ELSE IF IsArray(Field(resultObject, "profiles")) THEN resultObject.profiles.items
  ELSE IF IsArray(Field(resultObject, "results")) THEN resultObject.results.items
  ELSE IF IsArray(Field(resultObject, "data")) THEN resultObject.data.items
  ELSE <<>>

normalizeToArray(resultObject) ==
  IF ~Truthy(resultObject) THEN <<>>
  ELSE IF IsArray(resultObject) THEN resultObject.items
  ELSE IF IsArray(Field(resultObject, "data")) THEN resultObject.data.items
  ELSE IF IsArray(Field(resultObject, "results")) THEN resultObject.results.items
  ELSE IF IsArray(Field(resultObject, "profiles")) THEN resultObject.profiles.items
  ELSE <<>>

\* a key that looks at profileUrl alone
ItemKeyProfileOnly(it) == Or(it.profileUrl, Json(it))

\* it.profileUrl || it.url || it.linkedinProfileUrl || it.publicProfileUrl
\*   || JSON.stringify(it)
ItemKey(it) ==
  Or(Or(Or(Or(it.profileUrl, it.url), it.linkedinProfileUrl),
        it.publicProfileUrl), Json(it))

RECURSIVE DedupeFrom(_, _, _)
DedupeFrom(items, seen, out) ==
  IF items = <<>> THEN out
  ELSE LET key == ItemKey(Head(items))
       IN  IF key \in seen THEN DedupeFrom(Tail(items), seen, out)
           ELSE DedupeFrom(Tail(items), seen \cup {key}, Append(out, Head(items)))

\* a dedupe that drops nothing
dedupeNothing(items) == items

dedupeByUrl(items) == DedupeFrom(items, {}, <<>>)

\* a slice that keeps one item more
SliceOneMore(s, max) == SubSeq(s, 1, Min(Len(s), max + 1))

\* arr.slice(0, max)
Slice(s, max) == SubSeq(s, 1, Min(Len(s), max))

truncateArray(arr, max) ==
  IF ~IsArray(arr) THEN arr ELSE Arr(Slice(arr.items, max))

\* ------------------------------------------------------------------------
\* The remote service's jobs and its answers to an output request
\* ------------------------------------------------------------------------
\* the lengths of the lists: none, one, the limit and more than the limit
ListLens == {0, 1, MAX_RESULTS_RETURNED, MAX_RESULTS_RETURNED + MaxExtra}

\* the items job c returns: its own, or items other jobs return too
OwnList(c, n) == [k \in 1..n |-> Item(Null, Url(<<c, k>>), Null, Null, Text("own"))]
SharedList(n) == [k \in 1..n |-> Item(Url(<<0, k>>), Null, Null, Null, Text("shared"))]

LongLen == MAX_RESULTS_RETURNED + MaxExtra

Lists(c) ==
  { OwnList(c, n) : n \in ListLens } \cup { SharedList(n) : n \in {1, LongLen} }

\* every payload shape normalizeToArray knows, and some it does not
Payloads(c) ==
  { Null, Obj(Null, Null, Null), Text("done") }
    \cup { Arr(l) : l \in Lists(c) }
    \cup { Obj(Arr(OwnList(c, LongLen)), Null, Null),
           Obj(Null, Arr(OwnList(c, LongLen)), Null),
           Obj(Null, Null, Arr(OwnList(c, LongLen))) }

\* a short list of payloads, for the runs that exercise the handlers' interplay
FewPayloads(c) == { Null, Arr(OwnList(c, 1)), Obj(Arr(SharedList(1)), Null, Null) }

\* a running job ends: finished with some output, or aborted
JobEnds(c, status, payload) ==
  /\ c \in DOMAIN jobs
  /\ jobs[c].status = "running"
  /\ status \in {"finished", "aborted"}
  /\ status = "aborted" => payload = Null
  /\ jobs' = [jobs EXCEPT ![c] = [status |-> status, payload |-> payload]]
  /\ http' = Null
  /\ UNCHANGED << variant, call, batches, post, get >>

\* the body of the output endpoint, in its top-level and its nested shape
OutBodies(status, resultObject, error) ==
  { [status |-> status, resultObject |-> resultObject, data |-> Null,
     error |-> error],
    [status |-> Null, resultObject |-> Null,
     data |-> [tag |-> "object", status |-> status, resultObject |-> resultObject],
     error |-> error] }

PbError == [tag |-> "object", message |-> Text("agent error")]

\* what the remote service may answer to an output request while the job is
\* as `job` says: its status and output, with or without an error detail, or
\* no answer at all (the request fails)
JobAnswers(job, details, statuses) ==
  LET errors == IF job.status = "finished" THEN {Null}
                ELSE IF job.status = "aborted" THEN details
                ELSE details \cap {Null, PbError}
  IN  { [kind |-> "response", body |-> b] :
          b \in UNION { OutBodies(Text(job.status), job.payload, e) : e \in errors } }
      \cup { [kind |-> "error", err |-> HttpError(st)] : st \in statuses }

\* the error details and the failures of an output request
ErrorDetails == {Null, Text("aborted"), PbError}
FewDetails == {Null}
ProbeFailStatuses == {0, 503}

\* The answer to a status request was made at some moment since the request
\* was sent: it shows the job as it is now or, when the job was still running
\* as the request went out (stale), as it was then.
ProbeAnswers(probe, details, statuses) ==
  JobAnswers(jobs[probe.cid], details, statuses)
    \cup (IF probe.stale
          THEN JobAnswers([status |-> "running", payload |-> Null], details, statuses)
          ELSE {})

\* pollSingleRun: what it returns for the answer to its axios.get
pollSingleRun(answer) ==
  IF answer.kind = "error"
  THEN [status |-> Text("error"), resultObject |-> Null,
        error |-> ErrDetail(answer.err)]
  ELSE LET out == answer.body
       IN  [status |-> Or(out.status,
                          IF out.data = Null THEN Null ELSE out.data.status),
            resultObject |-> Or(out.resultObject,
                                IF out.data = Null THEN Null
                                ELSE out.data.resultObject),
            error |-> Or(out.error, Null)]

\* ------------------------------------------------------------------------
\* GET /results/:batchId
\* ------------------------------------------------------------------------
IdleGet ==
  [pc |-> "idle", batchId |-> 0, elapsed |-> 0, wakeAt |-> 0,
   probes |-> EmptyFn, still |-> FALSE, rounds |-> 0, resp |-> Null]

\* handler g goes on as q: the table keeps q, the response goes out
GetStep(g, req, q) ==
  /\ get' = [get EXCEPT ![g] = IF q.pc = "idle" THEN IdleGet ELSE q]
  /\ http' = IF q.resp # Null \/ req # Null
             THEN Event("GET", g, req, q.resp, q.rounds) ELSE Null

\* an answer without the 404
RespUnknownOk == [code |-> 200, error |-> Text("Unknown batchId")]

\* res.status(404).json({ error: "Unknown batchId" })
Resp404 == [code |-> 404, error |-> Text("Unknown batchId")]

Terminal(status) == status \in {"finished", "aborted", "error"}

RECURSIVE MergedRaw(_, _)
\* the finished runs' normalized payloads, in the order of Object.values(runs)
MergedRaw(runs, keys) ==
  IF keys = <<>> THEN <<>>
  ELSE LET run == runs[Head(keys)]
       IN  (IF run.status = "finished" /\ Truthy(run.resultObject)
            THEN normalizeToArray(run.resultObject) ELSE <<>>)
           \o MergedRaw(runs, Tail(keys))

\* the perTitle copy of a run's payload (parallel and staggered services)
PerTitlePayload(ro) ==
  IF IsArray(ro) THEN Arr(Slice(ro.items, MAX_RESULTS_RETURNED))
  ELSE IF Truthy(ro) /\ IsArray(Field(ro, "data"))
  THEN [ro EXCEPT !.data = Arr(Slice(ro.data.items, MAX_RESULTS_RETURNED))]
  ELSE ro

PerTitle(runs) ==
  [t \in DOMAIN runs |->
     [status |-> runs[t].status, containerId |-> runs[t].containerId,
      url |-> runs[t].url,
      resultObject |-> IF variant = "snapshot" THEN runs[t].resultObject
                       ELSE PerTitlePayload(runs[t].resultObject),
      error |-> runs[t].error]]

\* Object.values(runs).every(r => r.status is finished, aborted or error)
AllFinished(runs) == \A t \in DOMAIN runs : Terminal(runs[t].status)

\* the merged list without its truncation
MergedUntruncated(runs, keys) == dedupeByUrl(MergedRaw(runs, keys))

\* the merged list of the response
Merged(runs, keys) ==
  LET merged == dedupeByUrl(MergedRaw(runs, keys))
  IN  IF variant = "snapshot" THEN merged
      ELSE truncateArray(Arr(merged), MAX_RESULTS_RETURNED).items

\* res.json({ batchId, company, titles, allFinished, mergedCount, merged, perTitle })
GetResp(bs, id) ==
  LET b == bs[id]
      merged == Merged(b.runs, b.keys)
  IN  [code |-> 200, batchId |-> id, company |-> b.company, titles |-> b.titles,
       allFinished |-> AllFinished(b.runs), mergedCount |-> Len(merged),
       merged |-> merged, perTitle |-> PerTitle(b.runs)]

\* the handler sends its response and is over
Respond(gr, bs) ==
  [IdleGet EXCEPT !.resp = GetResp(bs, gr.batchId), !.rounds = gr.rounds]

\* a round that asks for every Run that has a job, whatever its status
ProbedWithJob(run) == Truthy(run.containerId)

\* run.status === "running" && run.containerId
Probed(run) == run.status = "running" /\ Truthy(run.containerId)

\* a loop that goes on whatever the clock says
PollLoopForever(elapsed) == TRUE

\* while (Date.now() - start < Number(MAX_SINGLE_POLL_WAIT_MS))
PollLoopGuard(elapsed) == elapsed < MAX_SINGLE_POLL_WAIT_MS

\* Date.now() - start + Number(POLL_EVERY_MS) < Number(MAX_SINGLE_POLL_WAIT_MS)
SleepGuard(elapsed) == elapsed + POLL_EVERY_MS < MAX_SINGLE_POLL_WAIT_MS

\* The handler reaches the top of its polling round: every run that is
\* running gets its status request at once (Promise.all over an async map);
\* with none to send, Promise.all resolves and the handler answers.
StartRound(gr, bs) ==
  LET runs == bs[gr.batchId].runs
      sent == { t \in DOMAIN runs : Probed(runs[t]) }
  IN  IF variant # "snapshot" /\ ~PollLoopGuard(gr.elapsed) THEN Respond(gr, bs)
      ELSE IF sent = {} THEN Respond([gr EXCEPT !.rounds = @ + 1], bs)
      ELSE [gr EXCEPT !.pc = "polling", !.still = FALSE, !.rounds = @ + 1,
                      !.probes = [t \in sent |->
                        [cid |-> runs[t].containerId.n,
                         stale |-> jobs[runs[t].containerId.n].status = "running"]]]

GetRequest(g, id) ==
  /\ get[g].pc = "idle"
  /\ GetStep(g, [batchId |-> id],
       IF id \notin DOMAIN batches THEN [IdleGet EXCEPT !.resp = Resp404]
       ELSE StartRound([IdleGet EXCEPT !.batchId = id], batches))
  /\ UNCHANGED << variant, call, batches, post, jobs >>

IsString(v) == v.tag \in {"text", "string", "axios"}

\* an error detail that is dropped
ErrorTextNone(error) == Null

\* error ? (typeof error === "string" ? error : JSON.stringify(error)) : null
ErrorText(error) ==
  IF Truthy(error) THEN (IF IsString(error) THEN error ELSE Json(error)) ELSE Null

\* a poll step that forgets the job of the Run
PollStepClearsId(run, r) == [run EXCEPT !.status = "error", !.containerId = Null]

\* a poll step that writes nothing
PollStepNothing(run, r) == run

\* the run object after the lines that follow `await pollSingleRun(...)`
PollStep(run, r) ==
  IF r.status = Text("finished")
  THEN [run EXCEPT !.status = "finished", !.resultObject = Or(r.resultObject, Null)]
  ELSE IF r.status = Text("aborted") \/ r.status = Text("error")
  THEN [run EXCEPT !.status = IF r.status = Text("error") THEN "error" ELSE "aborted",
                   !.error = ErrorText(r.error)]
  ELSE IF variant = "snapshot" THEN [run EXCEPT !.status = "running"]
  ELSE run

\* somethingStillRunning = true
StillRunning(r) ==
  ~(r.status = Text("finished") \/ r.status = Text("aborted")
      \/ r.status = Text("error"))

\* the polling round is over: the handler answers, or sleeps and goes round again
EndRound(gr, bs) ==
  IF variant = "snapshot" THEN Respond(gr, bs)
  ELSE IF ~gr.still THEN Respond(gr, bs)
  ELSE IF SleepGuard(gr.elapsed)
  THEN [gr EXCEPT !.pc = "sleeping", !.wakeAt = gr.elapsed + POLL_EVERY_MS,
                  !.probes = EmptyFn]
  ELSE Respond(gr, bs)

\* pollSingleRun returns to handler g for title t.  The handler writes to the
\* run object it read at the start of the round: that object is the one in the
\* table unless a later launch put a new object under the same title.
ProbeReturn(g, t, answer) ==
  /\ get[g].pc = "polling"
  /\ t \in DOMAIN get[g].probes
  /\ LET gr == get[g]
         pr == gr.probes[t]
         r == pollSingleRun(answer)
         old == batches[gr.batchId].runs[t]
         bs == IF old.containerId = Cid(pr.cid)
               THEN [batches EXCEPT ![gr.batchId].runs[t] = PollStep(old, r)]
               ELSE batches
         left == [u \in DOMAIN gr.probes \ {t} |-> gr.probes[u]]
         gr2 == [gr EXCEPT !.probes = left,
                           !.still = @ \/ (variant # "snapshot" /\ StillRunning(r))]
     IN  /\ batches' = bs
         /\ GetStep(g, Null, IF DOMAIN left = {} THEN EndRound(gr2, bs) ELSE gr2)
  /\ UNCHANGED << variant, call, post, jobs >>

\* await sleep(POLL_EVERY_MS) is over: back to the loop guard
Wake(g) ==
  /\ get[g].pc = "sleeping"
  /\ get[g].elapsed >= get[g].wakeAt
  /\ GetStep(g, Null, StartRound(get[g], batches))
  /\ UNCHANGED << variant, call, batches, post, jobs >>

\* time passes: Date.now() grows by d for every handler that is waiting
Tick(d) ==
  /\ variant # "snapshot"
  /\ \E g \in Gets : get[g].pc # "idle" /\ get[g].elapsed < MAX_SINGLE_POLL_WAIT_MS
  /\ get' = [g \in Gets |->
       IF get[g].pc = "idle" THEN get[g]
       ELSE [get[g] EXCEPT !.elapsed = Min(@ + d, MAX_SINGLE_POLL_WAIT_MS)]]
  /\ http' = Null
  /\ UNCHANGED << variant, call, batches, post, jobs >>

\* the clock is read every six poll intervals
TickSteps == {6 * POLL_EVERY_MS}

\* ------------------------------------------------------------------------
\* The service
\* ------------------------------------------------------------------------
Init ==
  /\ variant \in Variants
  /\ batches = EmptyFn
  /\ post = [h \in Posts |-> IdlePost]
  /\ get = [g \in Gets |-> IdleGet]
  /\ jobs = EmptyFn
  /\ http = Null
  /\ call = Null

\* the bodies and failures of the runs that exercise the handlers' interplay
FewBodies ==
  { [company |-> Str(<<" ">>), titles |-> Arr(<<"T1">>)] }
    \cup [company : NoCompany, titles : {Null}]
    \cup [company : {Str(<<" ", "a", " ">>)},
          titles : {Arr(<<"T1", "T2">>), Arr(<<"T1", "T1">>)}]

FewStatuses == {429}

\* the whole service: a POST handler, a GET handler and the remote service
Next ==
  \/ \E h \in Posts, body \in FewBodies : PostRequest(h, body)
  \/ \E h \in Posts : \E a \in LaunchAnswers(FewStatuses) : LaunchReturnStaggered(h, a)
  \/ \E h \in Posts : StaggerWake(h)
  \/ \E h \in Posts : BackoffWake(h)
  \/ \E h \in Posts : \E i \in post[h].inflight : \E a \in LaunchAnswers(FewStatuses) :
       LaunchReturnParallel(h, i, a)
  \/ \E c \in DOMAIN jobs : \E st \in {"finished", "aborted"} :
       \E p \in FewPayloads(c) : JobEnds(c, st, p)
  \/ \E id \in 1..(MaxBatches + 1) : GetRequest("g1", id)
  \/ \E t \in DOMAIN get["g1"].probes :
       \E a \in ProbeAnswers(get["g1"].probes[t], FewDetails, {0}) :
         ProbeReturn("g1", t, a)
  \/ Wake("g1")
  \/ \E d \in TickSteps : Tick(d)

Spec == Init /\ [][Next]_vars

\* POST /search-profiles alone, with every body and every failure
NextPost ==
  \/ \E h \in Posts, body \in Bodies : PostRequest(h, body)
  \/ \E h \in Posts : \E a \in LaunchAnswers(FailStatuses) : LaunchReturnStaggered(h, a)
  \/ \E h \in Posts : StaggerWake(h)
  \/ \E h \in Posts : BackoffWake(h)
  \/ \E h \in Posts : \E i \in post[h].inflight : \E a \in LaunchAnswers(FailStatuses) :
       LaunchReturnParallel(h, i, a)

SpecPost == Init /\ [][NextPost]_vars

\* The table after POST /search-profiles { company: "a", titles } has answered:
\* the first `launched` titles run as jobs 1, 2, ..., the launch of the others
\* returned no container id.
LaunchedRun(title, company, i, launched) ==
  LET err == JsError([tag |-> "noContainerId", title |-> title])
  IN  IF i <= launched
      THEN RunStarted(title, buildLinkedInSearchUrl(title, company), Cid(i))
      ELSE RunFailed(title,
             IF variant = "staggered" THEN ErrDetail(Exceeded(title, ErrDetail(err)))
             ELSE err.message)

LaunchedBatch(titles, launched) ==
  LET company == Str(<<"a">>)
  IN  [NewBatch(company, titles) EXCEPT
         !.runs = [t \in {titles[i] : i \in 1..Len(titles)} |->
                     LaunchedRun(t, company,
                                 CHOOSE i \in 1..Len(titles) : titles[i] = t,
                                 launched)],
         !.keys = titles]

Launched(titles, launched) ==
  /\ variant \in Variants
  /\ batches = [id \in {1} |-> LaunchedBatch(titles, launched)]
  /\ jobs = [c \in 1..launched |-> [status |-> "running", payload |-> Null]]
  /\ post = [h \in Posts |-> IdlePost]
  /\ get = [g \in Gets |-> IdleGet]
  /\ http = Null
  /\ call = Null

\* one job runs: the batch had one title, or two and the second launch failed
InitPoll == \E titles \in {<<"T1">>, <<"T1", "T2">>} : Launched(titles, 1)

\* every title of the batch runs as a job
InitMerge ==
  \E titles \in {<<"T1">>, <<"T1", "T2">>} : Launched(titles, Min(Len(titles), MaxJobs))

\* the GET handlers, two at once, and the remote service's jobs
NextPoll ==
  \/ \E c \in DOMAIN jobs : \E st \in {"finished", "aborted"} :
       \E p \in FewPayloads(c) : JobEnds(c, st, p)
  \/ \E g \in Gets : \E id \in 1..(MaxBatches + 1) : GetRequest(g, id)
  \/ \E g \in Gets : \E t \in DOMAIN get[g].probes :
       \E a \in ProbeAnswers(get[g].probes[t], ErrorDetails, ProbeFailStatuses) :
         ProbeReturn(g, t, a)
  \/ \E g \in Gets : Wake(g)
  \/ \E d \in TickSteps : Tick(d)

SpecPoll == InitPoll /\ [][NextPoll]_vars

\* one GET handler, and jobs that end with every payload
NextMerge ==
  \/ \E c \in DOMAIN jobs : \E st \in {"finished", "aborted"} :
       \E p \in Payloads(c) : JobEnds(c, st, p)
  \/ \E id \in 1..(MaxBatches + 1) : GetRequest("g1", id)
  \/ \E t \in DOMAIN get["g1"].probes :
       \E a \in ProbeAnswers(get["g1"].probes[t], FewDetails, {}) :
         ProbeReturn("g1", t, a)
  \/ Wake("g1")
  \/ \E d \in TickSteps : Tick(d)

SpecMerge == InitMerge /\ [][NextMerge]_vars

\* one GET handler over a batch whose titles all run, with every error detail
\* and every failure of a status request
NextRound ==
  \/ \E c \in DOMAIN jobs : \E st \in {"finished", "aborted"} :
       \E p \in FewPayloads(c) : JobEnds(c, st, p)
  \/ \E id \in 1..(MaxBatches + 1) : GetRequest("g1", id)
  \/ \E t \in DOMAIN get["g1"].probes :
       \E a \in ProbeAnswers(get["g1"].probes[t], ErrorDetails, ProbeFailStatuses) :
         ProbeReturn("g1", t, a)
  \/ Wake("g1")
  \/ \E d \in TickSteps : Tick(d)

SpecRound == InitMerge /\ [][NextRound]_vars

\* Every job ends, every status request is answered, every timer that is due
\* runs, and the caller asks for the batch again whenever it has its answer.
\* A status request can return exactly while the handler is in its round, and
\* a request can be received exactly while the handler is idle: the last two
\* conditions are weak fairness of the two actions with their enabling
\* conditions written out.
SpecRoundFair ==
  /\ SpecRound
  /\ WF_vars(\E c \in DOMAIN jobs : \E st \in {"finished", "aborted"} :
               \E p \in FewPayloads(c) : JobEnds(c, st, p))
  /\ WF_vars(Wake("g1"))
  /\ WF_vars(\E d \in TickSteps : Tick(d))
  /\ \/ []<>(get["g1"].pc # "polling")
     \/ []<><<\E t \in DOMAIN get["g1"].probes :
               \E a \in ProbeAnswers(get["g1"].probes[t], ErrorDetails,
                                     ProbeFailStatuses) :
                 ProbeReturn("g1", t, a)>>_vars
  /\ \/ []<>(get["g1"].pc # "idle")
     \/ []<><<GetRequest("g1", 1)>>_vars

\* The event loop runs every timer that is due and time passes; whether the
\* remote service ever answers a status request is up to the remote service
\* (axios.get is given no timeout, line 986).
SpecPollFair ==
  /\ SpecPoll
  /\ \A g \in Gets : WF_vars(Wake(g))
  /\ WF_vars(\E d \in TickSteps : Tick(d))

\* POST /search-profiles with a few bodies and every failure, where every
\* launch request returns or throws and every timer that is due runs
NextPostFew ==
  \/ \E h \in Posts, body \in FewBodies : PostRequest(h, body)
  \/ \E h \in Posts : \E a \in LaunchAnswers(FailStatuses) : LaunchReturnStaggered(h, a)
  \/ \E h \in Posts : StaggerWake(h)
  \/ \E h \in Posts : BackoffWake(h)
  \/ \E h \in Posts : \E i \in post[h].inflight : \E a \in LaunchAnswers(FailStatuses) :
       LaunchReturnParallel(h, i, a)

SpecPostFair ==
  /\ Init /\ [][NextPostFew]_vars
  /\ \A h \in Posts :
       /\ WF_vars(\E a \in LaunchAnswers(FailStatuses) : LaunchReturnStaggered(h, a))
       /\ WF_vars(\E i \in post[h].inflight : \E a \in LaunchAnswers(FailStatuses) :
                    LaunchReturnParallel(h, i, a))
       /\ WF_vars(StaggerWake(h))
       /\ WF_vars(BackoffWake(h))

\* ------------------------------------------------------------------------
\* The synchronous services: POST /search-profile (src/index.js)
\* ------------------------------------------------------------------------
\* the earlier service (launchAndWaitForResults) and the later one
\* (launchAndWaitForResult)
SyncVariants == {"results", "result"}

\* MAX_WAIT_MS = 180000 and POLL_EVERY_MS = 5000 in the earlier service,
\* 60000 and 3000 in the later one
MAX_WAIT_MS(v) == IF v = "results" THEN 180000 ELSE 60000
PollEveryMs(v) == IF v = "results" THEN 5000 ELSE 3000

\* the company and the title a client sends
SyncFields == { Null, Str(<<" ">>), Str(<<"a">>), Str(<<" ", "a", " ">>) }
SyncBodies == [company : SyncFields, title : SyncFields]

\* const title = (req.body.title || "").trim();
TitleOf(body) == Trim(Or(body.title, Str(<<>>)))

\* res.status(400).json({ error: "Company is required." }), and the like
SyncResp400(v, field) ==
  [code |-> 400,
   error |-> Text(IF v = "results"
                  THEN (IF field = "company" THEN "company is required."
                        ELSE "title is required.")
                  ELSE (IF field = "company" THEN "Company is required."
                        ELSE "Title is required."))]

Disclaimer ==
  Text("Failed to retrieve live results from PhantomBuster. No fabricated data has been returned.")

\* a 500 answer that leaves the disclaimer out
Resp500Bare(err) ==
  [code |-> 500, error |-> Text("Failed to retrieve live results from PhantomBuster."),
   details |-> Or(ErrDetail(err), Text("Unknown error"))]

\* res.status(500).json({ error: "...", details: err?.response?.data
\*   || err.message || "Unknown error" })
Resp500(err) ==
  [code |-> 500, error |-> Disclaimer,
   details |-> Or(ErrDetail(err), Text("Unknown error"))]

\* the errors launchAndWaitForResult throws
NoContainerId == JsError(Text("PhantomBuster launch did not return a containerId."))
TimedOut == JsError(Text("Timed out waiting for PhantomBuster to finish."))
\* `... failed or aborted: ${out.error?.message || JSON.stringify(out.error)}`
FailedOrAborted(error) ==
  JsError([tag |-> "failedOrAborted",
           detail |-> Or(Field(error, "message"), Json(error))])

\* the earlier service answers a finished job without output with a warning
NoResultObject == [tag |-> "warning", result |-> Null]

\* the payload of the later service's answer: a list, or an object's first
\* list among data, results and profiles, cut to MAX_RESULTS_RETURNED
ResponsePayload(resultObject) ==
  IF IsArray(resultObject) THEN truncateArray(resultObject, MAX_RESULTS_RETURNED)
  ELSE IF Truthy(resultObject) /\ IsArray(Field(resultObject, "data"))
  THEN [resultObject EXCEPT !.data = truncateArray(@, MAX_RESULTS_RETURNED)]
  ELSE IF Truthy(resultObject) /\ IsArray(Field(resultObject, "results"))
  THEN [resultObject EXCEPT !.results = truncateArray(@, MAX_RESULTS_RETURNED)]
  ELSE IF Truthy(resultObject) /\ IsArray(Field(resultObject, "profiles"))
  THEN [resultObject EXCEPT !.profiles = truncateArray(@, MAX_RESULTS_RETURNED)]
  ELSE resultObject

\* res.json(results) of the earlier service, res.json({ company, ... }) of
\* the later one
SyncResp200(v, p, resultObject) ==
  IF v = "results"
  THEN [code |-> 200,
        body |-> IF Truthy(resultObject) THEN resultObject ELSE NoResultObject]
  ELSE LET ro == Or(resultObject, Null)
       IN  [code |-> 200, company |-> p.company, title |-> p.title,
            linkedInSearchUrl |-> p.url,
            resultsCount |-> Len(normalizeToArray(ro)),
            resultsTruncatedTo |-> MAX_RESULTS_RETURNED,
            resultObject |-> ResponsePayload(ro)]

\* a handler that is not serving a request; elapsed is Date.now() - startedAt
\* and stale tells whether the job still ran as the status request went out
IdleSync ==
  [pc |-> "idle", company |-> Null, title |-> Null, url |-> Null,
   containerId |-> Null, elapsed |-> 0, stale |-> FALSE, resp |-> Null]

SyncAnswer(resp) == [IdleSync EXCEPT !.resp = resp]

\* handler h goes on as q; http shows the request received, the response
\* sent and the remote service's answer the step has heard
SyncStep(h, req, q, heard) ==
  /\ post' = [post EXCEPT ![h] = IF q.pc = "idle" THEN IdleSync ELSE q]
  /\ http' = IF q.resp # Null \/ req # Null \/ heard # Null
             THEN Event("POST", h, req, q.resp, heard) ELSE Null

\* POST /search-profile is received: validation, then the launch request
SyncRequest(h, body) ==
  /\ variant \in SyncVariants
  /\ post[h].pc = "idle"
  /\ LET company == CompanyOf(body)
         title == TitleOf(body)
     IN  SyncStep(h, body,
           IF ~Truthy(company) THEN SyncAnswer(SyncResp400(variant, "company"))
           ELSE IF ~Truthy(title) THEN SyncAnswer(SyncResp400(variant, "title"))
           ELSE [IdleSync EXCEPT !.pc = "launching", !.company = company,
                                 !.title = title,
                                 !.url = buildLinkedInSearchUrl(title, company)],
           Null)
  /\ UNCHANGED << variant, call, batches, get, jobs >>

\* a budget that never runs out
WaitNeverExceeded(v, elapsed) == FALSE

\* if (Date.now() - startedAt > Number(MAX_WAIT_MS)) throw ...
WaitExceeded(v, elapsed) == elapsed > MAX_WAIT_MS(v)

\* the top of the polling loop: the budget check, then the status request
SyncPoll(p) ==
  IF WaitExceeded(variant, p.elapsed) THEN SyncAnswer(Resp500(TimedOut))
  ELSE [p EXCEPT !.pc = "polling",
                 !.stale = jobs'[p.containerId.n].status = "running"]

\* axios.post of the launch returns or throws
SyncLaunchReturn(h, answer) ==
  /\ variant \in SyncVariants
  /\ post[h].pc = "launching"
  /\ jobs' = JobStarted(answer)
  /\ LET p == post[h]
         containerId == ExtractContainerId(Or(answer.body, NoIdBody))
     IN  SyncStep(h, Null,
           IF answer.kind = "error" THEN SyncAnswer(Resp500(answer.err))
           ELSE IF ~Truthy(containerId) THEN SyncAnswer(Resp500(NoContainerId))
           ELSE SyncPoll([p EXCEPT !.containerId = containerId, !.elapsed = 0]),
           answer)
  /\ UNCHANGED << variant, call, batches, get >>

\* const out = outRes.data || {}
NoOut == [status |-> Null, resultObject |-> Null, data |-> Null, error |-> Null]

\* what the remote service may answer to the status request of handler h
SyncProbeAnswers(h) ==
  IF post[h].pc # "polling" THEN {}
  ELSE ProbeAnswers([cid |-> post[h].containerId.n, stale |-> post[h].stale],
                    ErrorDetails, ProbeFailStatuses)
         \cup { [kind |-> "response", body |-> Null] }

\* out.status || out.data?.status
OutStatus(out) == Or(out.status, IF out.data = Null THEN Null ELSE out.data.status)
\* out.resultObject || out.data?.resultObject
OutResult(out) ==
  Or(out.resultObject, IF out.data = Null THEN Null ELSE out.data.resultObject)

\* axios.get of the status returns or throws: the answer, the failure, or
\* the sleep before the next request
SyncProbeReturn(h, answer) ==
  /\ variant \in SyncVariants
  /\ post[h].pc = "polling"
  /\ LET p == post[h]
         out == Or(answer.body, NoOut)
     IN  SyncStep(h, Null,
           IF answer.kind = "error" THEN SyncAnswer(Resp500(answer.err))
           ELSE IF OutStatus(out) = Text("finished")
           THEN SyncAnswer(SyncResp200(variant, p, OutResult(out)))
           ELSE IF OutStatus(out) = Text("aborted") \/ Truthy(out.error)
           THEN SyncAnswer(Resp500(FailedOrAborted(out.error)))
           ELSE [p EXCEPT !.pc = "sleeping"],
           answer)
  /\ UNCHANGED << variant, call, batches, get, jobs >>

\* how long a sleep of POLL_EVERY_MS may take: a timer is never early
SleepTimes(v) == { PollEveryMs(v), 6 * PollEveryMs(v) }

\* the sleep is over after d ms; the clock is not followed beyond the budget
SyncWake(h, d) ==
  /\ variant \in SyncVariants
  /\ post[h].pc = "sleeping"
  /\ UNCHANGED << variant, call, batches, get, jobs >>
  /\ LET p == post[h]
         now == Min(p.elapsed + d, MAX_WAIT_MS(variant) + PollEveryMs(variant))
     IN  SyncStep(h, Null, SyncPoll([p EXCEPT !.elapsed = now]), Null)

\* the payloads a job of the synchronous services ends with
SyncPayloads(c) ==
  { Null, Text("done"), Arr(OwnList(c, 1)), Arr(OwnList(c, LongLen)),
    Obj(Null, Arr(OwnList(c, LongLen)), Null) }

InitSync ==
  /\ variant \in SyncVariants
  /\ batches = EmptyFn
  /\ post = [h \in Posts |-> IdleSync]
  /\ get = [g \in Gets |-> IdleGet]
  /\ jobs = EmptyFn
  /\ http = Null
  /\ call = Null

NextSync ==
  \/ \E h \in Posts, body \in SyncBodies : SyncRequest(h, body)
  \/ \E h \in Posts : \E a \in LaunchAnswers(FewStatuses) : SyncLaunchReturn(h, a)
  \/ \E h \in Posts : \E a \in SyncProbeAnswers(h) : SyncProbeReturn(h, a)
  \/ \E h \in Posts : \E d \in SleepTimes(variant) : SyncWake(h, d)
  \/ \E c \in DOMAIN jobs : \E st \in {"finished", "aborted"} :
       \E p \in SyncPayloads(c) : JobEnds(c, st, p)

SpecSync == InitSync /\ [][NextSync]_vars

\* every remote call returns or throws and every timer that is due runs; a
\* remote call can return exactly while the handler waits for it
SpecSyncFair ==
  /\ SpecSync
  /\ WF_vars(\E a \in LaunchAnswers(FewStatuses) : SyncLaunchReturn("p1", a))
  /\ WF_vars(\E d \in SleepTimes(variant) : SyncWake("p1", d))
  /\ \/ []<>(post["p1"].pc # "polling")
     \/ []<><<\E a \in SyncProbeAnswers("p1") : SyncProbeReturn("p1", a)>>_vars

\* ------------------------------------------------------------------------
\* The post-processing functions on their own
\* ------------------------------------------------------------------------
\* result items: the same URL under each of the four fields, an empty
\* profileUrl, two URL fields at once, and no URL field at all
PureItems ==
  { Item(Url(1), Null, Null, Null, Text("a")),
    Item(Null, Url(1), Null, Null, Text("b")),
    Item(Str(<<>>), Url(2), Null, Null, Text("c")),
    Item(Null, Null, Url(2), Null, Text("d")),
    Item(Null, Null, Null, Url(1), Text("e")),
    Item(Url(2), Url(1), Null, Null, Text("f")),
    Item(Null, Null, Null, Null, Text("g")) }

\* the lists of at most n items
ListsUpTo(n) == UNION { [1..k -> PureItems] : k \in 0..n }

\* what a field of a payload object may hold
PureFields ==
  { Null, Text("x"), Arr(<<>>) }
    \cup { Arr(<<it>>) : it \in { Item(Url(1), Null, Null, Null, Text("a")),
                                  Item(Null, Null, Null, Null, Text("g")) } }

\* the payloads handed to the functions: lists, objects, and neither
PurePayloads ==
  { Null, Text("done") }
    \cup { Arr(l) : l \in ListsUpTo(MaxLen) }
    \cup { Obj(d, r, p) : d \in PureFields, r \in PureFields, p \in PureFields }

\* a call: the function, its argument, the limit at hand and the value returned
Call(fn, arg, max, result) == [fn |-> fn, arg |-> arg, max |-> max, result |-> result]

\* a payload and a limit are at hand, no function has been called yet
InitPure ==
  /\ variant = "staggered"
  /\ batches = EmptyFn
  /\ post = [h \in Posts |-> IdlePost]
  /\ get = [g \in Gets |-> IdleGet]
  /\ jobs = EmptyFn
  /\ http = Null
  /\ \E v \in PurePayloads, max \in 0..(MaxLen + 1) : call = Call("none", v, max, v)

\* normalizeToArray(value at hand)
CallNormalize ==
  /\ call' = Call("normalizeToArray", call.result, call.max,
                  Arr(normalizeToArray(call.result)))
  /\ UNCHANGED << variant, batches, post, get, jobs, http >>

\* dedupeByUrl(value at hand), for a list
CallDedupe ==
  /\ IsArray(call.result)
  /\ call' = Call("dedupeByUrl", call.result, call.max,
                  Arr(dedupeByUrl(call.result.items)))
  /\ UNCHANGED << variant, batches, post, get, jobs, http >>

\* truncateArray(value at hand, max)
CallTruncate ==
  /\ call' = Call("truncateArray", call.result, call.max,
                  truncateArray(call.result, call.max))
  /\ UNCHANGED << variant, batches, post, get, jobs, http >>

NextPure == CallNormalize \/ CallDedupe \/ CallTruncate

SpecPure == InitPure /\ [][NextPure]_vars

\* ------------------------------------------------------------------------
\* Two POST /search-profiles requests at once
\* ------------------------------------------------------------------------
TwoPosts == {"p1", "p2"}

TwoBodies ==
  { [company |-> Str(<<"a">>), titles |-> Arr(<<"T1">>)],
    [company |-> Str(<<"b">>), titles |-> Arr(<<"T1", "T2">>)] }

InitTwoPosts ==
  /\ variant \in Variants
  /\ batches = EmptyFn
  /\ post = [h \in TwoPosts |-> IdlePost]
  /\ get = [g \in Gets |-> IdleGet]
  /\ jobs = EmptyFn
  /\ http = Null
  /\ call = Null

NextTwoPosts ==
  \/ \E h \in TwoPosts, body \in TwoBodies : PostRequest(h, body)
  \/ \E h \in TwoPosts : \E a \in LaunchAnswers({}) : LaunchReturnStaggered(h, a)
  \/ \E h \in TwoPosts : StaggerWake(h)
  \/ \E h \in TwoPosts : BackoffWake(h)
  \/ \E h \in TwoPosts : \E i \in post[h].inflight : \E a \in LaunchAnswers({}) :
       LaunchReturnParallel(h, i, a)

SpecTwoPosts == InitTwoPosts /\ [][NextTwoPosts]_vars

\* ------------------------------------------------------------------------
\* The poll step on its own
\* ------------------------------------------------------------------------
\* the states a job may be in when its status is requested
JobStates ==
  { [status |-> "running", payload |-> Null], [status |-> "aborted", payload |-> Null] }
    \cup { [status |-> "finished", payload |-> p] : p \in Payloads(1) }

\* a running Run, the job behind it and the answer to a status request
InitStep ==
  /\ variant \in Variants
  /\ batches = EmptyFn
  /\ post = [h \in Posts |-> IdlePost]
  /\ get = [g \in Gets |-> IdleGet]
  /\ http = Null
  /\ \E job \in JobStates :
       /\ jobs = [c \in {1} |-> job]
       /\ \E a \in JobAnswers(job, ErrorDetails, ProbeFailStatuses) :
            call = Call("none", a, 0,
                        RunStarted("T1", buildLinkedInSearchUrl("T1", Str(<<"a">>)),
                                   Cid(1)))

\* const { status, resultObject, error } = await pollSingleRun(run.containerId)
\* and the lines that follow it, for the answer at hand
CallPollStep ==
  /\ call.fn = "none"
  /\ call' = Call("pollStep", call.arg, 0, PollStep(call.result, pollSingleRun(call.arg)))
  /\ UNCHANGED << variant, batches, post, get, jobs, http >>

NextStep == CallPollStep

SpecStep == InitStep /\ [][NextStep]_vars

\* ------------------------------------------------------------------------
\* The backoff schedule on its own
\* ------------------------------------------------------------------------
\* err?.response?.status of a failed launch: none (0), rate limit, request
\* timeout, server errors and other client errors
LaunchStatuses == {0, 400, 404, 408, 429, 499, 500, 503}

\* the locals of launchRunForTitleWithRetry
Retry(attempt, delay, wait) == [attempt |-> attempt, delay |-> delay, wait |-> wait]

\* let attempt = 0; let delay = Number(LAUNCH_BASE_DELAY_MS);
InitBackoff ==
  /\ variant = "staggered"
  /\ batches = EmptyFn
  /\ post = [h \in Posts |-> IdlePost]
  /\ get = [g \in Gets |-> IdleGet]
  /\ jobs = EmptyFn
  /\ http = Null
  /\ call = Call("none", Null, 0, Retry(0, LAUNCH_BASE_DELAY_MS, 0))

\* the catch of the retry loop for a failure with this status: the attempt
\* is counted and, unless it was the last, the wait and the next delay are set
CallRetry(status, jitter) ==
  /\ RetryLoopGuard(call.result.attempt)
  /\ ~RetriesExhausted(NextAttempt(call.result.attempt))
  /\ call' = Call("retry",
                  [status |-> status, jitter |-> jitter, delay |-> call.result.delay],
                  0,
                  Retry(NextAttempt(call.result.attempt),
                        RetryDelay(call.result.delay, status),
                        RetryWait(call.result.delay, status, jitter)))
  /\ UNCHANGED << variant, batches, post, get, jobs, http >>

NextBackoff == \E status \in LaunchStatuses, jitter \in Jitters : CallRetry(status, jitter)

SpecBackoff == InitBackoff /\ [][NextBackoff]_vars

\* two batches of one title each have been launched: jobs 1 and 2 run
InitTwoBatches ==
  /\ variant \in Variants
  /\ batches = [id \in {1, 2} |->
                  [LaunchedBatch(<<"T1">>, 1) EXCEPT !.runs["T1"].containerId = Cid(id)]]
  /\ jobs = [c \in {1, 2} |-> [status |-> "running", payload |-> Null]]
  /\ post = [h \in Posts |-> IdlePost]
  /\ get = [g \in Gets |-> IdleGet]
  /\ http = Null
  /\ call = Null

\* one GET handler that is asked for the one batch or the other
SpecTwoBatches == InitTwoBatches /\ [][NextRound]_vars

\* the whole HTTP surface: one of the fire-and-poll services or one of the
\* synchronous services runs
InitSurface == Init \/ InitSync

NextSurface ==
  \/ variant \in Variants /\ Next
  \/ variant \in SyncVariants /\ NextSync

SpecSurface == InitSurface /\ [][NextSurface]_vars

\* ------------------------------------------------------------------------
\* Properties
\* ------------------------------------------------------------------------
\* the response a step sent, if it sent one
PostResponded == http # Null /\ http.op = "POST" /\ http.resp # Null
GetResponded == http # Null /\ http.op = "GET" /\ http.resp # Null

\* C1: a Run's status is monotone. Once a Run is finished, aborted or error,
\* no step of a GET /results/:batchId handler changes its status, however
\* the handlers that probed the Run while it was running interleave.
C1_StatusMonotone ==
  [][\A id \in DOMAIN batches : \A t \in DOMAIN batches[id].runs :
       Terminal(batches[id].runs[t].status)
         => batches'[id].runs[t].status = batches[id].runs[t].status]_vars

\* C2: when POST /search-profiles with a company has answered, the batch has
\* as many Runs as its title list has titles, and the Runs' titles are the
\* titles of the list, also for a list that repeats a title.
C2_RunPerTitle ==
  /\ (http # Null /\ http.op = "POST" /\ http.req # Null /\ http.resp = Null) =>
       batches[post[http.h].batchId].titles =
         IF IsArray(http.req.titles) /\ http.req.titles.items # <<>>
         THEN http.req.titles.items ELSE DEFAULT_TITLES
  /\ (PostResponded /\ http.resp.code = 200) =>
       LET b == batches[http.resp.batchId]
       IN  /\ Cardinality(DOMAIN b.runs) = Len(b.titles)
           /\ DOMAIN b.runs = { b.titles[i] : i \in 1..Len(b.titles) }

\* C3: a Run's containerId, once it is not null, never changes: for every
\* batch and title, runs[title].containerId keeps its first non-null value.
C3_ContainerIdImmutable ==
  [][\A id \in DOMAIN batches : \A t \in DOMAIN batches[id].runs :
       batches[id].runs[t].containerId # Null
         => batches'[id].runs[t].containerId = batches[id].runs[t].containerId]_vars

\* C4: every GET /results/:batchId on a known batch eventually sends its
\* response, whatever the remote service does, also when a status request
\* for a Run is never answered.
C4_GetResponds ==
  \A g \in Gets : (get[g].pc # "idle") ~> (get[g].pc = "idle")

\* the identity keys of a list of items
Keys(items) == { ItemKey(items[i]) : i \in 1..Len(items) }

\* the normalized result list of a Run
RunList(run) == normalizeToArray(run.resultObject)

RECURSIVE SumOfLists(_, _)
\* the sum of the lengths of the Runs' normalized lists
SumOfLists(runs, keys) ==
  IF keys = <<>> THEN 0
  ELSE Len(RunList(runs[Head(keys)])) + SumOfLists(runs, Tail(keys))

\* every Run of the batch is finished and no two Runs' lists share a key
FinishedApart(b) ==
  /\ \A t \in DOMAIN b.runs : b.runs[t].status = "finished"
  /\ \A t, u \in DOMAIN b.runs :
       t # u => Keys(RunList(b.runs[t])) \cap Keys(RunList(b.runs[u])) = {}

\* a GET /results/:batchId handler has just sent its 200 response
GetAnswered == GetResponded /\ http.resp.code = 200

\* C5 as stated: for a batch whose Runs are all finished with lists that share
\* no key, GET reports allFinished = true and mergedCount = the sum of the
\* lengths of the Runs' normalized lists, for every size of the lists.
C5_MergedCountIsSum ==
  (GetAnswered /\ FinishedApart(batches[http.resp.batchId])) =>
    LET b == batches[http.resp.batchId]
    IN  /\ http.resp.allFinished
        /\ http.resp.mergedCount = SumOfLists(b.runs, b.keys)

\* C5 amended: for such a batch GET reports allFinished = true and mergedCount
\* = the sum of the lengths or MAX_RESULTS_RETURNED, whichever is less (the
\* single-snapshot service, which has no limit, reports the sum).
C5_MergedCountIsCappedSum ==
  (GetAnswered /\ FinishedApart(batches[http.resp.batchId])) =>
    LET b == batches[http.resp.batchId]
        sum == SumOfLists(b.runs, b.keys)
    IN  /\ http.resp.allFinished
        /\ http.resp.mergedCount =
             IF variant = "snapshot" THEN sum ELSE Min(sum, MAX_RESULTS_RETURNED)
        /\ Len(http.resp.merged) = http.resp.mergedCount

\* C5's case: two finished Runs whose lists share no key and together exceed
\* the limit, reported by the staggered service
C5_Witness ==
  /\ GetAnswered
  /\ variant = "staggered"
  /\ LET b == batches[http.resp.batchId]
     IN  /\ FinishedApart(b)
         /\ Cardinality(DOMAIN b.runs) = 2
         /\ \A t \in DOMAIN b.runs : RunList(b.runs[t]) # <<>>
         /\ SumOfLists(b.runs, b.keys) > MAX_RESULTS_RETURNED
         /\ http.resp.mergedCount = MAX_RESULTS_RETURNED

\* C6: in every GET /results/:batchId response of a service that has the
\* limit, the merged list and each per-title result list have at most
\* MAX_RESULTS_RETURNED entries, whether the Run's payload is a bare list or
\* holds its list under data, results or profiles.
C6_ListsTruncated ==
  (GetAnswered /\ variant # "snapshot") =>
    /\ Len(http.resp.merged) <= MAX_RESULTS_RETURNED
    /\ \A t \in DOMAIN http.resp.perTitle :
         Len(normalizeToArray(http.resp.perTitle[t].resultObject))
           <= MAX_RESULTS_RETURNED

\* a step in which a handler receives a request
PostReceives == http' # Null /\ http'.op = "POST" /\ http'.req # Null
GetReceives == http' # Null /\ http'.op = "GET" /\ http'.req # Null

\* C7: POST /search-profiles with a missing, empty or whitespace-only company
\* answers 400, adds no batch, sends no launch request and leaves the batch
\* table as it was.
C7_NoCompanyRejected ==
  [][(PostReceives /\ http'.req.company \in NoCompany) =>
       /\ http'.resp # Null
       /\ http'.resp.code = 400
       /\ batches' = batches
       /\ jobs' = jobs
       /\ post'[http'.h] = IdlePost
       /\ http'.sent = <<>>]_vars

\* C7's case: a whitespace-only company is refused while the table holds a batch
C7_Witness ==
  /\ http # Null /\ http.op = "POST" /\ http.req # Null
  /\ http.req.company = Str(<<" ", " ">>)
  /\ http.resp # Null /\ http.resp.code = 400
  /\ DOMAIN batches # {}

\* C8: GET /results/:batchId for an id that no POST created answers 404,
\* sends no status request and leaves the batch table as it was; a batch,
\* once created, is never removed, and GET for its id never answers 404.
C8_UnknownBatch ==
  [][/\ DOMAIN batches \subseteq DOMAIN batches'
     /\ GetReceives =>
          IF http'.req.batchId \in DOMAIN batches
          THEN http'.resp = Null \/ http'.resp.code = 200
          ELSE /\ http'.resp # Null
               /\ http'.resp.code = 404
               /\ batches' = batches
               /\ jobs' = jobs
               /\ get' = get
     /\ (http' # Null /\ http'.op = "GET" /\ http'.resp # Null
           /\ http'.resp.code # 200) => http'.req # Null]_vars

\* C8's case: 404 for an unknown id while the table holds a batch
C8_Witness ==
  /\ http # Null /\ http.op = "GET" /\ http.req # Null
  /\ http.resp # Null /\ http.resp.code = 404
  /\ http.req.batchId \notin DOMAIN batches
  /\ DOMAIN batches # {}

\* the launch of title number i of handler h's batch ends in this step, and
\* it ends without a job: the last request for it failed
LaunchEnds(h, i) ==
  /\ post[h].pc = "launching"
  /\ i \in post[h].inflight
  /\ i \notin post'[h].inflight
  /\ post'[h].pc # "backoff"

LaunchFails(h, i) == LaunchEnds(h, i) /\ jobs' = jobs

\* C9: a title whose launch fails for good (after its retries) is recorded as
\* a Run with status error and the failure detail; the batch goes on: every
\* title of the batch is launched and has a Run, and POST answers with the
\* batch id.
C9_FailedLaunchRecorded ==
  /\ [][\A h \in Posts : \A i \in 1..Len(post[h].sent) :
          LaunchFails(h, i) =>
            LET p == post[h]
                q == post'[h]
                n == Len(batches[p.batchId].titles)
                title == batches[p.batchId].titles[i]
                run == batches'[p.batchId].runs[title]
            IN  /\ run.status = "error"
                /\ run.error # Null
                /\ run.containerId = Null
                /\ variant = "staggered" =>
                     /\ p.sent[i] = LAUNCH_MAX_RETRIES
                     /\ i < n => q.pc = "stagger" /\ q.idx = i + 1
                     /\ i = n => q.pc = "idle"
                /\ q.pc = "idle" =>
                     /\ http'.resp.code = 200
                     /\ http'.resp.batchId = p.batchId
                     /\ http'.resp.runs[title].status = "error"]_vars
  /\ [](PostResponded /\ http.resp.code = 200 =>
          LET b == batches[http.resp.batchId]
          IN  /\ Len(http.sent) = Len(b.titles)
              /\ \A i \in 1..Len(b.titles) :
                   /\ http.sent[i] >= 1
                   /\ b.titles[i] \in DOMAIN http.resp.runs)

\* C9's case: the first title failed after its retries, the second runs
C9_Witness ==
  /\ PostResponded /\ http.resp.code = 200
  /\ variant = "staggered"
  /\ http.resp.titles = <<"T1", "T2">>
  /\ http.sent = <<LAUNCH_MAX_RETRIES, 1>>
  /\ http.resp.runs["T1"].status = "error"
  /\ http.resp.runs["T2"].status = "running"

\* launchRunForTitleWithRetry is at work for title number i
Retrying(h, i) ==
  /\ variant = "staggered"
  /\ post[h].pc \in {"launching", "backoff"}
  /\ post[h].idx = i

\* C10: launchRunForTitleWithRetry sends at most LAUNCH_MAX_RETRIES launch
\* requests for a title; it returns at the first success and sends no more;
\* after LAUNCH_MAX_RETRIES failures it fails instead of trying again; and
\* it terminates when every request returns.
C10_RetryBounded ==
  /\ [](\A h \in Posts : \A i \in 1..Len(post[h].sent) :
          post[h].sent[i] <= LAUNCH_MAX_RETRIES)
  /\ [][\A h \in Posts :
          LET p == post[h]
              q == post'[h]
              i == p.idx
          IN  /\ (variant = "staggered" /\ p.pc = "launching" /\ q # p) =>
                   IF jobs' # jobs
                   THEN /\ q.pc \in {"stagger", "idle"}
                        /\ batches'[p.batchId].runs[batches[p.batchId].titles[i]].status
                             = "running"
                   ELSE IF p.sent[i] < LAUNCH_MAX_RETRIES
                   THEN q.pc = "backoff" /\ q.idx = i /\ q.sent = p.sent
                   ELSE /\ q.pc \in {"stagger", "idle"}
                        /\ batches'[p.batchId].runs[batches[p.batchId].titles[i]].status
                             = "error"
              /\ (p.pc = "backoff" /\ q # p) =>
                   q.pc = "launching" /\ q.idx = i /\ q.sent = Sent(p.sent, i)
              /\ (p.pc # "idle" /\ q.pc # "idle") =>
                   \A k \in 1..Len(p.sent) :
                     (k # q.idx \/ q.pc = "stagger") => q.sent[k] = p.sent[k]]_vars
  /\ \A h \in Posts : \A i \in 1..Len(DEFAULT_TITLES) :
       Retrying(h, i) ~> ~Retrying(h, i)

\* C10's case: one title took every attempt and failed, the next succeeded at
\* its second attempt
C10_Witness ==
  /\ PostResponded /\ http.resp.code = 200
  /\ variant = "staggered"
  /\ http.resp.titles = <<"T1", "T2">>
  /\ http.sent = <<LAUNCH_MAX_RETRIES, 2>>
  /\ http.resp.runs["T2"].status = "running"

\* the status request of handler g for title t returns in this step
ProbeReturns(g, t) ==
  /\ get[g].pc = "polling"
  /\ t \in DOMAIN get[g].probes
  /\ get'[g].pc # "polling" \/ t \notin DOMAIN get'[g].probes

\* C11: a status request that fails in transport makes its Run error with the
\* failure detail and nothing else: the other Runs of the round keep their
\* pending requests, the round starts with a request for every running Run,
\* and the handler goes on to its normal 200 response.
C11_PollErrorRecorded ==
  [][\A g \in Gets :
       /\ \A t \in DOMAIN get[g].probes :
            LET id == get[g].batchId
                old == batches[id].runs[t]
                new == batches'[id].runs[t]
                left == DOMAIN get[g].probes \ {t}
            IN  (ProbeReturns(g, t) /\ old.status = "running" /\ new.status = "error") =>
                  /\ new.error # Null
                  /\ new.containerId = old.containerId
                  /\ new.resultObject = old.resultObject
                  /\ \A u \in DOMAIN batches[id].runs \ {t} :
                       batches'[id].runs[u] = batches[id].runs[u]
                  /\ IF left # {}
                     THEN get'[g].pc = "polling" /\ DOMAIN get'[g].probes = left
                     ELSE \/ get'[g].pc = "sleeping"
                          \/ /\ get'[g].pc = "idle"
                             /\ http'.resp.code = 200
                             /\ http'.resp.perTitle[t].status = "error"
       /\ (get[g].pc # "polling" /\ get'[g].pc = "polling") =>
            DOMAIN get'[g].probes =
              { t \in DOMAIN batches[get'[g].batchId].runs :
                  LET run == batches[get'[g].batchId].runs[t]
                  IN  run.status = "running" /\ run.containerId # Null }]_vars

\* C11's case: in one round the request for T1 failed and the one for T2
\* brought its result, and the response shows both
C11_Witness ==
  /\ GetAnswered
  /\ http.sent = 1
  /\ DOMAIN http.resp.perTitle = {"T1", "T2"}
  /\ http.resp.perTitle["T1"].status = "error"
  /\ http.resp.perTitle["T1"].containerId # Null
  /\ http.resp.perTitle["T1"].error # Null
  /\ http.resp.perTitle["T2"].status = "finished"
  /\ http.resp.perTitle["T2"].resultObject # Null

\* C12: when every job ends and reports its end, and the caller keeps asking
\* for the batch, a response eventually reports allFinished = true, with
\* every Run of the batch finished, aborted or error.
C12_EventuallyAllFinished ==
  <>(/\ GetAnswered
     /\ http.resp.allFinished
     /\ \A t \in DOMAIN batches[http.resp.batchId].runs :
          batches[http.resp.batchId].runs[t].status \in {"finished", "aborted", "error"})

\* C12's case: the staggered handler went round twice before both Runs of the
\* batch had ended, and reports it
C12_Witness ==
  /\ GetAnswered
  /\ variant = "staggered"
  /\ http.sent >= 2
  /\ http.resp.allFinished
  /\ DOMAIN http.resp.perTitle = {"T1", "T2"}
  /\ \A t \in {"T1", "T2"} : http.resp.perTitle[t].status \in {"finished", "aborted"}

\* title number k of handler h's batch is settled: its launch succeeded, or
\* failed after LAUNCH_MAX_RETRIES requests
Settled(h, k) ==
  LET b == batches[post[h].batchId]
      title == b.titles[k]
  IN  /\ post[h].sent[k] >= 1
      /\ title \in DOMAIN b.runs
      /\ \/ b.runs[title].status = "running" /\ b.runs[title].containerId # Null
         \/ b.runs[title].status = "error" /\ post[h].sent[k] = LAUNCH_MAX_RETRIES

\* C13: the staggered service launches the titles of a batch one at a time
\* and in the order of the list: at most one launch request is in flight, it
\* is the one of the current title, every title before it has succeeded or
\* has used up its retries, and no title after it has been requested.
C13_OneLaunchAtATime ==
  \A h \in Posts :
    (variant = "staggered" /\ post[h].pc # "idle") =>
      LET p == post[h]
          n == Len(batches[p.batchId].titles)
      IN  /\ Cardinality(p.inflight) <= 1
          /\ p.inflight \subseteq {p.idx}
          /\ p.pc = "launching" <=> p.inflight # {}
          /\ p.idx \in 1..n
          /\ \A k \in 1..n :
               /\ k < p.idx => Settled(h, k)
               /\ k > p.idx => p.sent[k] = 0
               /\ (k = p.idx /\ p.pc = "stagger") => p.sent[k] = 0

\* C13's case: the request for the third title is in flight after the first
\* title used up its retries and the second was launched
C13_Witness ==
  /\ variant = "staggered"
  /\ post["p1"].pc = "launching"
  /\ post["p1"].idx = 3
  /\ post["p1"].inflight = {3}
  /\ post["p1"].sent[1] = LAUNCH_MAX_RETRIES
  /\ post["p1"].sent[2] = 1
  /\ post["p1"].sent[4] = 0

\* the synchronous handler has sent a response with this code
SyncResponded(code) == PostResponded /\ http.resp.code = code

\* the answer to a status request a step of the synchronous handler has
\* heard (the answer to a launch request names the job it starts)
HeardStatus ==
  http # Null /\ http.op = "POST" /\ http.sent # Null /\ "job" \notin DOMAIN http.sent

\* an answer to a status request that shows the job running and no error
HeardRunning ==
  /\ http.sent.kind = "response"
  /\ LET out == Or(http.sent.body, NoOut)
     IN  /\ OutStatus(out) \notin {Text("finished"), Text("aborted")}
         /\ ~Truthy(out.error)

\* an answer to a status request that shows the job aborted or an error
HeardFailure ==
  /\ http.sent.kind = "response"
  /\ LET out == Or(http.sent.body, NoOut)
     IN  /\ OutStatus(out) # Text("finished")
         /\ OutStatus(out) = Text("aborted") \/ Truthy(out.error)

HeardFinished ==
  /\ http.sent.kind = "response"
  /\ OutStatus(Or(http.sent.body, NoOut)) = Text("finished")

ErrorResponded == http # Null /\ http.resp # Null /\ http.resp.code \in {400, 404, 500}

\* C15 as stated: every error response (400, 404, 500) carries the fixed
\* disclaimer that no fabricated data has been returned.
C15_EveryErrorDisclaims == ErrorResponded => http.resp.error = Disclaimer

\* C15: the 500 responses, and only they, carry the fixed disclaimer that no
\* fabricated data has been returned, together with the details of the
\* failure; a 400 or a 404 carries its own error message and nothing else.
C15_OnlyServerErrorsDisclaim ==
  ErrorResponded =>
    IF http.resp.code = 500
    THEN http.resp.error = Disclaimer /\ "details" \in DOMAIN http.resp
    ELSE /\ http.resp.error # Disclaimer
         /\ DOMAIN http.resp = {"code", "error"}
         /\ http.resp.error \in
              { Text("Company is required."), Text("Title is required."),
                Text("company is required."), Text("title is required."),
                Text("Unknown batchId") }

\* C15's case: a request that ended with a 500 response
C15_Witness == ErrorResponded /\ http.resp.code = 500 /\ http.resp.error = Disclaimer

\* a post-processing function has been called on its own
Called(fn) == call # Null /\ call.fn = fn

\* the identity key of an item: the first present value among profileUrl,
\* url, linkedinProfileUrl and publicProfileUrl, else the item's serialization
Present(v) == v # Null /\ v # Str(<<>>)
IdentityKey(it) ==
  IF Present(it.profileUrl) THEN it.profileUrl
  ELSE IF Present(it.url) THEN it.url
  ELSE IF Present(it.linkedinProfileUrl) THEN it.linkedinProfileUrl
  ELSE IF Present(it.publicProfileUrl) THEN it.publicProfileUrl
  ELSE Json(it)

\* the positions of the items that are the first of their key
FirstSeen(items) ==
  { i \in 1..Len(items) :
      \A j \in 1..(i - 1) : IdentityKey(items[j]) # IdentityKey(items[i]) }

\* the k-th smallest member of a set of positions
Nth(S, k) == CHOOSE i \in S : Cardinality({ j \in S : j <= i }) = k

\* C16: dedupeByUrl keeps exactly the first item of each identity key, in the
\* order of the input; no two items of its output share a key; and applying
\* it to its own output gives that output again.
C16_DedupeFirstSeen ==
  /\ [](Called("dedupeByUrl") =>
          LET items == call.arg.items
              out == call.result.items
              first == FirstSeen(items)
          IN  /\ Len(out) = Cardinality(first)
              /\ \A k \in 1..Len(out) : out[k] = items[Nth(first, k)]
              /\ \A a \in 1..Len(out) : \A b \in 1..Len(out) :
                   a # b => IdentityKey(out[a]) # IdentityKey(out[b]))
  /\ [][(Called("dedupeByUrl") /\ Called("dedupeByUrl")') =>
          call'.result = call.result]_vars

\* C16's case: of three items the first and the third are different items
\* with one key, and the third is dropped
C16_Witness ==
  /\ Called("dedupeByUrl")
  /\ Len(call.arg.items) = 3
  /\ call.arg.items[1] # call.arg.items[3]
  /\ IdentityKey(call.arg.items[1]) = IdentityKey(call.arg.items[3])
  /\ IdentityKey(call.arg.items[1]) # IdentityKey(call.arg.items[2])
  /\ call.result.items = << call.arg.items[1], call.arg.items[2] >>

\* the fields normalizeToArray probes, in their order
ProbedFields == << "data", "results", "profiles" >>

\* the positions in ProbedFields of the fields of v that hold a list
ListFields(v) ==
  IF v.tag # "object" THEN {}
  ELSE { i \in 1..3 : v[ProbedFields[i]].tag = "array" }

\* the entries of the payload: its own, or those of the lists in its fields
Entries(v) ==
  IF v.tag = "array" THEN { v.items[k] : k \in 1..Len(v.items) }
  ELSE UNION { { v[ProbedFields[i]].items[k] : k \in 1..Len(v[ProbedFields[i]].items) } :
               i \in ListFields(v) }

\* C17: normalizeToArray returns a list payload unchanged, otherwise the
\* first list among the payload's fields data, results and profiles in that
\* order, otherwise the empty list; every entry it returns is an entry of the
\* payload; and normalizing a list it returned gives that list again.
C17_NormalizeFirstList ==
  /\ [](Called("normalizeToArray") =>
          LET v == call.arg
              out == call.result.items
          IN  /\ v.tag = "array" => out = v.items
              /\ (v.tag # "array" /\ ListFields(v) # {}) =>
                   out = v[ProbedFields[Nth(ListFields(v), 1)]].items
              /\ (v.tag # "array" /\ ListFields(v) = {}) => out = <<>>
              /\ \A k \in 1..Len(out) : out[k] \in Entries(v))
  /\ [][(Called("normalizeToArray") /\ Called("normalizeToArray")') =>
          call'.result = call.result]_vars

\* C17's case: data holds no list, results and profiles hold different
\* lists, and the list of results is returned
C17_Witness ==
  /\ Called("normalizeToArray")
  /\ call.arg.tag = "object"
  /\ call.arg.data = Text("x")
  /\ call.arg.results.tag = "array" /\ call.arg.profiles.tag = "array"
  /\ call.arg.results # call.arg.profiles
  /\ Len(call.arg.results.items) = 1
  /\ call.result = call.arg.results

\* C18: for every list and every max >= 0, truncateArray(list, max) is the
\* first min(max, length) items of the list, in their order.
C18_TruncatePrefix ==
  (Called("truncateArray") /\ call.arg.tag = "array") =>
    LET items == call.arg.items
        out == call.result.items
    IN  /\ call.max >= 0
        /\ Len(out) = (IF call.max < Len(items) THEN call.max ELSE Len(items))
        /\ Len(out) <= call.max
        /\ \A k \in 1..Len(out) : out[k] = items[k]

\* C18's case: a list of three items is cut to two
C18_Witness ==
  /\ Called("truncateArray")
  /\ call.arg.tag = "array"
  /\ Len(call.arg.items) = 3
  /\ call.max = 2
  /\ call.result.items = << call.arg.items[1], call.arg.items[2] >>

C20_ResultFrozenWhenTerminal ==
  [][\A id \in DOMAIN batches : \A t \in DOMAIN batches[id].runs :
       Terminal(batches[id].runs[t].status)
         => /\ batches'[id].runs[t].resultObject = batches[id].runs[t].resultObject
            /\ batches'[id].runs[t].error = batches[id].runs[t].error]_vars

\* what the answer to a status request reports
Reports(a, status) ==
  a.kind = "response" /\ OutStatus(Or(a.body, NoOut)) = Text(status)
ReportsError(a) == a.kind = "response" /\ Truthy(Or(a.body, NoOut).error)

\* C21: whenever the status fetch reports aborted, or reports an error detail
\* with a status other than finished, the poll step moves the Run out of
\* running into aborted or error and stores the error detail; the Run is left
\* running only when the fetch reports neither finished, nor aborted, nor an
\* error.
C21_PollStepFailure ==
  Called("pollStep") =>
    LET a == call.arg
        run == call.result
    IN  /\ (~Reports(a, "finished") /\ (Reports(a, "aborted") \/ ReportsError(a))) =>
             /\ run.status \in {"aborted", "error"}
             /\ ReportsError(a) => run.error # Null
        /\ run.status = "running" =>
             ~(Reports(a, "finished") \/ Reports(a, "aborted") \/ ReportsError(a)
                 \/ a.kind = "error")

\* the result a 200 response of a synchronous service returns
ReturnedResult(resp) ==
  IF variant = "results" THEN resp.body ELSE resp.resultObject

\* C22: when the remote job reports finished without a result payload, the
\* result stored in the Run or returned to the caller is null, and when it
\* reports a payload, that payload is stored or returned as it is, in the
\* fire-and-poll services and in the synchronous ones.
C22_AbsencePreserved ==
  /\ [][(variant \in SyncVariants /\ PostResponded' /\ http'.resp.code = 200) =>
          ReturnedResult(http'.resp) = OutResult(Or(http'.sent.body, NoOut))]_vars
  /\ [][(variant \in Variants) =>
          \A id \in DOMAIN batches : \A t \in DOMAIN batches[id].runs :
            (batches[id].runs[t].status = "running"
               /\ batches'[id].runs[t].status = "finished") =>
              (batches'[id].runs[t].resultObject =
                 jobs[batches[id].runs[t].containerId.n].payload)]_vars

\* handler g starts a polling round in this step: it goes on with one round
\* more, or answers having made one round more
StartsRound(g) ==
  \/ get'[g].pc # "idle" /\ get'[g].rounds = get[g].rounds + 1
  \/ /\ get[g].pc \in {"idle", "sleeping"} /\ get'[g].pc = "idle"
     /\ http' # Null /\ http'.op = "GET" /\ http'.h = g /\ http'.resp # Null
     /\ http'.resp.code = 200 /\ http'.sent = get[g].rounds + 1

\* handler g ends a polling round in this step: its last status request returns
EndsRound(g) == get[g].pc = "polling" /\ get'[g].pc # "polling"

GrowingClass(status) == status = 0 \/ status >= 500 \/ status \in {408, 429}

\* C24 as stated: the delay starts at LAUNCH_BASE_DELAY_MS and is multiplied
\* by LAUNCH_BACKOFF_FACTOR after each failed attempt; the wait is the delay
\* plus a jitter for the failures of the growing class, and at most 5000 ms
\* plus a jitter for the others.
C24_DelayDoublesEachAttempt ==
  Called("retry") =>
    /\ call.result.delay = LAUNCH_BASE_DELAY_MS * LAUNCH_BACKOFF_FACTOR ^ call.result.attempt
    /\ call.arg.jitter \in 0..(LAUNCH_JITTER_MS - 1)
    /\ IF GrowingClass(call.arg.status)
       THEN call.result.wait = call.arg.delay + call.arg.jitter
       ELSE call.result.wait <= 5000 + call.arg.jitter

\* C24: the delay starts at LAUNCH_BASE_DELAY_MS. After a failure without a
\* status, with a status >= 500, with 429 or with 408 the wait is the delay
\* plus a jitter in [0, LAUNCH_JITTER_MS) and the delay is then multiplied by
\* LAUNCH_BACKOFF_FACTOR; after any other failure the wait is the smaller of
\* the delay and 5000 ms, plus the jitter, and the delay stays as it is.
C24_BackoffSchedule ==
  /\ (call # Null /\ call.fn = "none" /\ "delay" \in DOMAIN call.result) =>
       call.result.delay = LAUNCH_BASE_DELAY_MS
  /\ Called("retry") =>
       /\ call.arg.jitter \in 0..(LAUNCH_JITTER_MS - 1)
       /\ call.result.attempt \in 1..(LAUNCH_MAX_RETRIES - 1)
       /\ IF GrowingClass(call.arg.status)
          THEN /\ call.result.wait = call.arg.delay + call.arg.jitter
               /\ call.result.delay = call.arg.delay * LAUNCH_BACKOFF_FACTOR
          ELSE /\ call.result.wait =
                    (IF call.arg.delay < 5000 THEN call.arg.delay ELSE 5000)
                      + call.arg.jitter
               /\ call.result.wait <= 5000 + call.arg.jitter
               /\ call.result.delay = call.arg.delay

\* C24's case: the fourth failure, a 404 after three failures of the growing
\* class, waits 5000 ms and the greatest jitter and leaves the delay at eight
\* times the base delay
C24_Witness ==
  /\ Called("retry")
  /\ call.result.attempt = 4
  /\ call.arg.status = 404
  /\ call.arg.delay = 8 * LAUNCH_BASE_DELAY_MS
  /\ call.result.delay = 8 * LAUNCH_BASE_DELAY_MS
  /\ call.result.wait = 5000 + LAUNCH_JITTER_MS - 1

RECURSIVE FinishedItems(_, _)
\* the items of the normalized payloads of the finished Runs, Run after Run
\* in the order the Runs were put into the batch
FinishedItems(runs, keys) ==
  IF keys = <<>> THEN <<>>
  ELSE (IF runs[Head(keys)].status = "finished"
        THEN normalizeToArray(runs[Head(keys)].resultObject) ELSE <<>>)
       \o FinishedItems(runs, Tail(keys))

C26_GetFrame ==
  [][/\ DOMAIN batches' = DOMAIN batches
     /\ \A id \in DOMAIN batches :
          /\ batches'[id].company = batches[id].company
          /\ batches'[id].titles = batches[id].titles
          /\ batches'[id].createdAt = batches[id].createdAt
          /\ batches'[id].keys = batches[id].keys
          /\ DOMAIN batches'[id].runs = DOMAIN batches[id].runs
          /\ \A t \in DOMAIN batches[id].runs :
               /\ batches'[id].runs[t].title = batches[id].runs[t].title
               /\ batches'[id].runs[t].url = batches[id].runs[t].url
               /\ batches'[id].runs[t].containerId = batches[id].runs[t].containerId
          /\ batches'[id] # batches[id] =>
               \E g \in Gets : get[g].pc = "polling" /\ get[g].batchId = id]_vars

\* C26's case: GET for batch 1 has made its Run finished while the Run of
\* batch 2, whose job has finished too, is as it was
C26_Witness ==
  /\ DOMAIN batches = {1, 2}
  /\ batches[1].runs["T1"].status = "finished"
  /\ batches[1].runs["T1"].resultObject # Null
  /\ jobs[2].status = "finished"
  /\ batches[2].runs["T1"].status = "running"

\* C27: every Run of the table whose status is running has a containerId
\* and a url, and every Run without a containerId has the status error and
\* an error message: a failed launch leaves no Run that a GET would probe.
C27_RunningHasContainerId ==
  \A id \in DOMAIN batches : \A t \in DOMAIN batches[id].runs :
    LET run == batches[id].runs[t]
    IN  /\ run.status = "running" => (run.containerId # Null /\ run.url # Null)
        /\ run.containerId = Null =>
             (run.status = "error" /\ run.error # Null /\ run.error # Str(<<>>))

\* C27's case: GET has answered for a batch with a Run whose launch failed
\* and a Run whose job was launched
C27_Witness ==
  /\ GetResponded /\ http.resp.code = 200
  /\ \E t \in DOMAIN batches[http.resp.batchId].runs :
       /\ batches[http.resp.batchId].runs[t].containerId = Null
       /\ batches[http.resp.batchId].runs[t].status = "error"
  /\ \E t \in DOMAIN batches[http.resp.batchId].runs :
       batches[http.resp.batchId].runs[t].containerId # Null

\* C28: no Run holds both a result payload and an error detail, also with
\* two GET /results/:batchId handlers at work on its batch: a finished Run
\* has no error, and a Run that is error or aborted has no resultObject.
C28_ResultXorError ==
  \A id \in DOMAIN batches : \A t \in DOMAIN batches[id].runs :
    LET run == batches[id].runs[t]
    IN  /\ ~(run.resultObject # Null /\ run.error # Null)
        /\ run.status = "finished" => run.error = Null
        /\ run.status \in {"error", "aborted"} => run.resultObject = Null

\* a GET /results/:batchId response for batch id that reports allFinished = flag
ReportsAllFinished(id, flag) ==
  GetAnswered /\ http.resp.batchId = id /\ http.resp.allFinished = flag

\* C29: allFinished is stable: once a GET /results/:batchId response for a
\* batch has reported allFinished = true, every later response for that batch
\* reports allFinished = true, whatever the interleaving of the GET handlers.
C29_AllFinishedStable ==
  \A id \in 1..MaxBatches :
    [](ReportsAllFinished(id, TRUE) => [](~ReportsAllFinished(id, FALSE)))

\* C30: whenever a GET /results/:batchId response reports allFinished = true,
\* every title of the batch's requested title list has a Run in a terminal
\* state, also when the GET is served while the POST /search-profiles that
\* created the batch is still launching titles.
C30_AllFinishedCoversTitles ==
  \A id \in 1..MaxBatches :
    ReportsAllFinished(id, TRUE) =>
      \A i \in 1..Len(batches[id].titles) :
        /\ batches[id].titles[i] \in DOMAIN batches[id].runs
        /\ Terminal(batches[id].runs[batches[id].titles[i]].status)

\* the status requests handler g sends in this step
NewProbes(g) == DOMAIN get'[g].probes \ DOMAIN get[g].probes

\* C31: GET /results/:batchId sends a status request only for a Run that is
\* running and has a containerId as the round reaches it, and for the job of
\* that Run; a Run whose launch failed is never asked for; and a GET on a
\* batch whose Runs are all terminal sends no status request and answers
\* after one round at most.
C31_ProbesOnlyRunning ==
  /\ [][\A g \in Gets : \A t \in NewProbes(g) :
          LET run == batches[get'[g].batchId].runs[t]
          IN  /\ run.status = "running"
              /\ run.containerId # Null
              /\ get'[g].probes[t].cid = run.containerId.n]_vars
  /\ [][\A g \in Gets : \A id \in DOMAIN batches :
          \A t \in DOMAIN batches[id].runs :
            (get'[g].batchId = id /\ batches[id].runs[t].containerId = Null)
              => t \notin NewProbes(g)]_vars
  /\ [][\A g \in Gets :
          (/\ GetReceives /\ http'.h = g
           /\ http'.req.batchId \in DOMAIN batches
           /\ \A t \in DOMAIN batches[http'.req.batchId].runs :
                Terminal(batches[http'.req.batchId].runs[t].status))
          => /\ NewProbes(g) = {}
             /\ get'[g].pc = "idle"
             /\ http'.resp # Null /\ http'.resp.code = 200
             /\ http'.sent <= 1
             /\ batches' = batches]_vars

\* C31's case: a GET is received for a batch with a Run that a round made
\* terminal and a Run whose launch failed, and is answered in the same step,
\* after its one round without a status request
C31_Witness ==
  /\ http # Null /\ http.op = "GET" /\ http.req # Null /\ http.resp # Null
  /\ http.resp.code = 200 /\ http.resp.allFinished /\ http.sent = 1
  /\ \E t \in DOMAIN http.resp.perTitle :
       http.resp.perTitle[t].containerId # Null
  /\ \E t \in DOMAIN http.resp.perTitle :
       http.resp.perTitle[t].containerId = Null

====
